---- MODULE Spec2Model ----
(***************************************************************************)
(* Model of the application syncer of edge-matrix (package application,    *)
(* syncer.go): the syncer's Start/Close, its fan-in goroutine              *)
(* (startPeerStatusUpdateProcess), its publisher goroutine, the new-status *)
(* signal channel and the peer map.  The collaborators whose code is not   *)
(* part of the sources (PeerMap, SyncAppPeerClient, SyncAppPeerService,    *)
(* the overlay) are modelled from the specification's contract.            *)
(***************************************************************************)
EXTENDS Naturals, Sequences, FiniteSets

\* ------------------------------------------------------------------ bounds

\* capacity of the status update channel (peerStatusUpdateCh)
ChanCap == 2
\* number of overlay status messages handed to the subscriber in one run
MaxMsgs == 2
\* number of PublishApplicationStatus calls followed in one run
MaxPublish == 2
\* number of PeerMap operations in one run of PeerMapSpec
MaxOps == 4
\* largest uptime the endpoint application reaches in one run
MaxUptime == 1

\* ------------------------------------------------------------- data model

\* this node's own peer identifier (host.ID())
LocalID == "self"
\* remote peers
Peers == {"p1", "p2"}
\* peer identifiers a wire message can carry, the empty one included
MsgIDs == Peers \cup {LocalID, ""}
\* (guage_height, guage_max) pairs carried by the messages; <<2, 1>> violates
\* guage_height <= guage_max
Gauges == {<<0, 1>>, <<1, 1>>, <<2, 1>>}

\* nil *AppPeer
Nil == [ID |-> "nil", GuageHeight |-> 0, GuageMax |-> 0]

\* AppPeer values translated from AppStatus messages
AppPeer(id, g) == [ID |-> id, GuageHeight |-> g[1], GuageMax |-> g[2]]

AppStatusMsgs == {AppPeer(id, g) : id \in MsgIDs, g \in Gauges}

\* uptime values carried by the statuses of ArrivalSpec
Uptimes == {1, 2}

\* AppPeer values with their Uptime
TimedAppPeer(id, g, u) ==
  [ID |-> id, GuageHeight |-> g[1], GuageMax |-> g[2], Uptime |-> u]

\* well-formed statuses of remote peers, with every uptime
TimedMsgs ==
  {TimedAppPeer(id, g, u) : id \in Peers, g \in {<<0, 1>>, <<1, 1>>},
                            u \in Uptimes}

\* the endpoint application's name
EndpointName == "app"
\* the endpoint application's startup time
EndpointStartup == 1
\* the endpoint application's guage_max, and the guage heights it takes
EndpointGuageMax == 1
GuageHeights == 0..EndpointGuageMax
\* average e-power values the endpoint application takes
Powers == {0, 1}

\* the EndpointApplication with uptime u, guage height h and average power w
Endpoint(u, h, w) ==
  [Name |-> EndpointName, Uptime |-> u, StartupTime |-> EndpointStartup,
   AveragePower |-> w, GuageHeight |-> h, GuageMax |-> EndpointGuageMax]

EndpointStates ==
  {Endpoint(u, h, w) : u \in 0..MaxUptime, h \in GuageHeights, w \in Powers}

\* s.host.Addrs(): the listening addresses of the host, in order
HostAddrSets == {<<>>, <<"a1">>, <<"a1", "a2">>, <<"a2", "a1">>}

\* no AppStatus has been handed to PublishApplicationStatus
NoStatus == [Name |-> "none"]

\* the fields of the endpoint application that doPublishAppStatus reads, in the
\* order of its GetEndpointApplication() calls
ReadFields == <<"Name", "Uptime", "StartupTime", "AveragePower">>

\* the read fields of an endpoint state
ReadView(e) == [i \in 1..Len(ReadFields) |-> e[ReadFields[i]]]

VARIABLES
  clientStarted,     \* SyncAppPeerClient.Start succeeded
  subscribed,        \* the client subscribed to the status topic (topicSubFlag)
  serviceStarts,     \* number of SyncAppPeerService.Start calls
  serviceClosed,     \* SyncAppPeerService.Close succeeded
  clientClosed,      \* SyncAppPeerClient.Close was called
  startRet,          \* what the last syncer.Start returned
  clientStartRet,    \* what the last SyncAppPeerClient.Start returned
  updateCh,          \* buffered contents of the status update channel
  updateChClosed,    \* the status update channel is closed
  newStatusChClosed, \* s.newStatusCh is closed
  observer,          \* a goroutine receiving from s.newStatusCh
  dirty,             \* a Put happened since the observer last received a signal
  peerMap,           \* s.peerMap
  lastOp,            \* per key, the last PeerMap operation applied to it
  lastCall,          \* the last PeerMap operation called, with its key
  opCount,           \* number of PeerMap operations applied (PeerMapSpec)
  fanInSpawned,      \* number of fan-in goroutines spawned
  fanInPc,           \* position of the fan-in goroutine
  held,              \* peerStatus of the current fan-in iteration
  pubSpawned,        \* number of publisher goroutines spawned
  pubPc,             \* position of the publisher goroutine
  tickPending,       \* ticker.C holds a tick
  pubCalls,          \* number of PublishApplicationStatus calls made
  ticksConsumed,     \* number of ticks received by the publisher
  closePc,           \* position of the running syncer.Close call
  closeRet,          \* what the last completed syncer.Close returned
  panicked,          \* a goroutine panicked: the process is gone
  msgCount,          \* number of overlay messages handed to the subscriber
  lastDiscard,       \* why the subscriber discarded its last message, if it did
  discPending,       \* peers with a disconnected event and no status since
  lastArrived,       \* per peer, the last status the subscriber sent on the channel
  pendingSignals,    \* signals sent on s.newStatusCh and not yet handled
  lastPublish,       \* outcome of the last PublishApplicationStatus call
  callArg,           \* the argument of the last call of a read-only operation
  callRes,           \* what that call returned
  endpoint,          \* applicationStore.GetEndpointApplication()
  hostAddrs,         \* s.host.Addrs()
  published,         \* the AppStatus of the last PublishApplicationStatus call
  readBuf,           \* fields the running doPublishAppStatus has read so far
  seenStates         \* read views the endpoint has had since the last publish

vars == <<clientStarted, subscribed, serviceStarts, serviceClosed, clientClosed,
          startRet, clientStartRet, updateCh, updateChClosed,
          newStatusChClosed, observer, dirty, peerMap, lastOp, lastCall,
          opCount,
          fanInSpawned, fanInPc, held, pubSpawned, pubPc, tickPending,
          pubCalls, ticksConsumed, closePc, closeRet, panicked, msgCount,
          lastDiscard, discPending, lastArrived, pendingSignals, lastPublish,
          callArg, callRes, endpoint, hostAddrs, published, readBuf,
          seenStates>>

clientVars == <<clientStarted, subscribed, clientClosed, clientStartRet>>
serviceVars == <<serviceStarts, serviceClosed>>
chanVars == <<updateCh, updateChClosed>>
signalVars == <<newStatusChClosed, observer, dirty, pendingSignals>>
mapVars == <<peerMap, lastOp, lastCall, opCount>>
fanInVars == <<fanInSpawned, fanInPc, held>>
pubVars == <<pubSpawned, pubPc, tickPending, pubCalls, ticksConsumed,
            lastPublish>>
closeVars == <<closePc, closeRet>>
overlayVars == <<msgCount, lastDiscard, discPending, lastArrived>>
callVars == <<callArg, callRes>>
endpointVars == <<endpoint, hostAddrs, published, readBuf, seenStates>>

\* ---------------------------------------------------------------- PeerMap

\* PeerMap.Put: insert or replace the entry of status.ID
PeerMapPut(m, status) == [m EXCEPT ![status.ID] = status]

\* PeerMap.Get: the entry of id, or nil
PeerMapGet(m, id) == m[id]

\* PeerMap.Remove: delete the entry of id
PeerMapRemove(m, id) == [m EXCEPT ![id] = Nil]

\* new(PeerMap)
EmptyPeerMap == [k \in MsgIDs |-> Nil]

\* the keys that have an entry
PeerMapKeys(m) == {k \in MsgIDs : m[k] # Nil}

\* ------------------------------------------------------------------- Init

\* callArg and callRes before any call
NoCall == [Kind |-> "none"]

\* NewSyncer
NewSyncer ==
  /\ clientStarted = FALSE
  /\ subscribed = FALSE
  /\ serviceStarts = 0
  /\ serviceClosed = FALSE
  /\ clientClosed = FALSE
  /\ startRet = "none"
  /\ clientStartRet = "none"
  /\ updateCh = <<>>
  /\ updateChClosed = FALSE
  /\ newStatusChClosed = FALSE
  /\ observer = "idle"
  /\ dirty = FALSE
  /\ peerMap = EmptyPeerMap
  /\ lastOp = [k \in MsgIDs |-> <<"none", Nil>>]
  /\ lastCall = <<"none", "">>
  /\ opCount = 0
  /\ fanInSpawned = 0
  /\ fanInPc = "none"
  /\ held = Nil
  /\ pubSpawned = 0
  /\ pubPc = "none"
  /\ tickPending = FALSE
  /\ pubCalls = 0
  /\ ticksConsumed = 0
  /\ closePc = "idle"
  /\ closeRet = "none"
  /\ panicked = FALSE
  /\ msgCount = 0
  /\ lastDiscard = "none"
  /\ discPending = {}
  /\ lastArrived = [k \in MsgIDs |-> Nil]
  /\ pendingSignals = 0
  /\ lastPublish = "none"
  /\ published = NoStatus
  /\ readBuf = <<>>

\* no read-only operation has been called
NoCalls ==
  /\ callArg = NoCall
  /\ callRes = NoCall

\* the host listens on one address and the endpoint application has just
\* started
FreshEndpoint ==
  /\ endpoint = Endpoint(0, 0, 0)
  /\ hostAddrs = <<"a1">>
  /\ seenStates = {ReadView(endpoint)}

Init ==
  /\ NewSyncer
  /\ NoCalls
  /\ FreshEndpoint

\* ------------------------------------------------- collaborators (contract)

\* SyncAppPeerClient.Start(topicSubFlag): a second Start reports
\* already-started; subscribing to the topic can fail
ClientStartResult(topicSubFlag, subFails) ==
  IF clientStarted THEN "already_started"
  ELSE IF topicSubFlag /\ subFails THEN "subscribe_failed"
  ELSE "ok"

\* a subscriber that lets this node's own statuses through
SubscriberAcceptsSelf(msg) ==
  /\ msg.ID # ""
  /\ msg.GuageHeight <= msg.GuageMax

\* a subscriber that does not compare guage_height with guage_max
SubscriberAcceptsAnyGauge(msg) ==
  /\ msg.ID # ""
  /\ msg.ID # LocalID

\* StatusSubscriber: the messages it lets through to the update channel
SubscriberAccepts(msg) ==
  /\ msg.ID # ""
  /\ msg.ID # LocalID
  /\ msg.GuageHeight <= msg.GuageMax

\* why the subscriber discards msg
DiscardReason(msg) ==
  IF msg.ID = "" THEN "empty"
  ELSE IF msg.ID = LocalID THEN "self"
  ELSE "gauge"

\* StatusSubscriber: one message of the status topic arrives.  An accepted
\* message is sent on the update channel; the send waits while the channel is
\* full.  Any other message is discarded.
SubscriberDeliver(msg) ==
  /\ ~panicked
  /\ clientStarted /\ subscribed /\ ~clientClosed
  /\ msgCount < MaxMsgs
  /\ msgCount' = msgCount + 1
  /\ IF SubscriberAccepts(msg)
     THEN /\ Len(updateCh) < ChanCap
          /\ updateCh' = Append(updateCh, msg)
          /\ lastDiscard' = "none"
          /\ discPending' = discPending \ {msg.ID}
          /\ lastArrived' = [lastArrived EXCEPT ![msg.ID] = msg]
     ELSE /\ lastDiscard' = DiscardReason(msg)
          /\ UNCHANGED <<updateCh, discPending, lastArrived>>
  /\ UNCHANGED <<callVars, endpointVars, clientVars, serviceVars, updateChClosed, signalVars, mapVars,
                 fanInVars, pubVars, closeVars, startRet, panicked>>

\* Overlay event bus: a disconnected(p) event fires
OverlayDisconnect(p) ==
  /\ ~panicked
  /\ p \notin discPending
  /\ discPending' = discPending \cup {p}
  /\ UNCHANGED <<callVars, endpointVars, clientVars, serviceVars, chanVars, signalVars, mapVars,
                 fanInVars, pubVars, closeVars, startRet, panicked, msgCount,
                 lastDiscard, lastArrived>>

\* ------------------------------------------------------------ syncer.Start

\* Start as a bug would have it: the service and the goroutines are started
\* before the client's error is looked at
StartSpawnFirst(topicSubFlag, subFails) ==
  /\ ~panicked
  /\ clientStartRet' = ClientStartResult(topicSubFlag, subFails)
  /\ startRet' = clientStartRet'
  /\ clientStarted' = TRUE
  /\ subscribed' = IF clientStarted THEN subscribed ELSE topicSubFlag
  /\ serviceStarts' = serviceStarts + 1
  /\ fanInSpawned' = fanInSpawned + 1
  /\ fanInPc' = IF fanInPc = "none" THEN "recv" ELSE fanInPc
  /\ pubSpawned' = pubSpawned + 1
  /\ pubPc' = IF pubPc = "none" THEN "first" ELSE pubPc
  /\ UNCHANGED <<callVars, endpointVars, clientClosed, serviceClosed, chanVars, signalVars, mapVars,
                 held, tickPending, pubCalls, ticksConsumed, lastPublish,
                 closeVars, panicked, overlayVars>>

\* syncer.Start(topicSubFlag)
Start(topicSubFlag, subFails) ==
  /\ ~panicked
  /\ clientStartRet' = ClientStartResult(topicSubFlag, subFails)
  /\ startRet' = clientStartRet'
  /\ IF clientStartRet' # "ok"
     THEN UNCHANGED <<clientStarted, subscribed, serviceStarts, fanInSpawned,
                      fanInPc, pubSpawned, pubPc>>
     ELSE /\ clientStarted' = TRUE
          /\ subscribed' = topicSubFlag
          /\ serviceStarts' = serviceStarts + 1
          /\ fanInSpawned' = fanInSpawned + 1
          /\ fanInPc' = "recv"
          /\ pubSpawned' = pubSpawned + 1
          /\ pubPc' = "first"
  /\ UNCHANGED <<callVars, endpointVars, clientClosed, serviceClosed, chanVars, signalVars, mapVars,
                 held, tickPending, pubCalls, ticksConsumed, lastPublish,
                 closeVars, panicked, overlayVars>>

\* ------------------------------------------------------------ syncer.Close

\* a Close that goes on to the service without closing the signal channel
CloseSignalSkipped ==
  /\ ~panicked
  /\ closePc = "idle"
  /\ closePc' = "service"
  /\ UNCHANGED <<callVars, endpointVars, clientVars, serviceVars, chanVars,
                 signalVars, mapVars, fanInVars, pubVars, closeRet, startRet,
                 panicked, overlayVars>>

\* Close, first statement: close(s.newStatusCh), whenever Close is called:
\* before any Start, after a Start that failed, or while another Close is
\* still between this statement and its return.  Closing a closed channel
\* panics; a receiver waiting on the channel is released.
CloseSignal ==
  /\ ~panicked
  /\ IF newStatusChClosed
     THEN /\ panicked' = TRUE
          /\ UNCHANGED <<newStatusChClosed, observer, closePc>>
     ELSE /\ newStatusChClosed' = TRUE
          /\ observer' = IF observer = "waiting" THEN "closed" ELSE observer
          /\ closePc' = "service"
          /\ UNCHANGED panicked
  /\ UNCHANGED <<callVars, endpointVars, clientVars, serviceVars, chanVars, dirty,
                 pendingSignals, mapVars, fanInVars, pubVars, closeRet,
                 startRet, overlayVars>>

\* Close, second statement: s.syncAppPeerService.Close(); its error is returned
CloseService(err) ==
  /\ ~panicked
  /\ closePc = "service"
  /\ IF err
     THEN /\ closeRet' = "err"
          /\ closePc' = "idle"
          /\ UNCHANGED serviceClosed
     ELSE /\ serviceClosed' = TRUE
          /\ closePc' = "client"
          /\ UNCHANGED closeRet
  /\ UNCHANGED <<callVars, endpointVars, clientVars, serviceStarts, chanVars, signalVars, mapVars,
                 fanInVars, pubVars, startRet, panicked, overlayVars>>

\* Close, third statement: s.syncAppPeerClient.Close(), which closes the
\* update channel; return nil
CloseClient ==
  /\ ~panicked
  /\ closePc = "client"
  /\ clientClosed' = TRUE
  /\ updateChClosed' = TRUE
  /\ closeRet' = "ok"
  /\ closePc' = "idle"
  /\ UNCHANGED <<callVars, endpointVars, clientStarted, subscribed, clientStartRet, serviceVars,
                 updateCh, signalVars, mapVars, fanInVars, pubVars, startRet,
                 panicked, overlayVars>>

\* ------------------------------------------------------ peer map of syncer

\* putToPeerMap that keeps the entry with the larger uptime
putToPeerMapNewest(status) ==
  /\ peerMap' = IF peerMap[status.ID] # Nil
                    /\ peerMap[status.ID].Uptime > status.Uptime
                 THEN peerMap
                 ELSE PeerMapPut(peerMap, status)
  /\ lastOp' = [lastOp EXCEPT ![status.ID] = <<"put", status>>]
  /\ dirty' = TRUE

\* putToPeerMap, first statement: s.peerMap.Put(status)
putToPeerMap(status) ==
  /\ peerMap' = PeerMapPut(peerMap, status)
  /\ lastOp' = [lastOp EXCEPT ![status.ID] = <<"put", status>>]
  /\ dirty' = TRUE

\* removeFromPeerMap without the removal
removeFromPeerMapNoop(peerID) ==
  /\ peerMap' = peerMap
  /\ lastOp' = [lastOp EXCEPT ![peerID] = <<"remove", Nil>>]

\* removeFromPeerMap: s.peerMap.Remove(peerID)
removeFromPeerMap(peerID) ==
  /\ peerMap' = PeerMapRemove(peerMap, peerID)
  /\ lastOp' = [lastOp EXCEPT ![peerID] = <<"remove", Nil>>]

\* GetAppPeer that finds no entry
GetAppPeerAbsent(id) == Nil

\* GetAppPeer: s.peerMap.Get(id)
GetAppPeer(id) == PeerMapGet(peerMap, id)

\* the non-blocking send of notifyNewStatusEvent finds a receiver
SignalDelivered == ~newStatusChClosed /\ observer = "waiting"

\* notifyNewStatusEvent with a plain send: it waits for a receiver
notifyNewStatusEventBlocking ==
  /\ newStatusChClosed \/ observer = "waiting"
  /\ panicked' = newStatusChClosed
  /\ observer' = IF SignalDelivered THEN "woken" ELSE observer
  /\ dirty' = IF SignalDelivered THEN FALSE ELSE dirty
  /\ pendingSignals' = IF SignalDelivered THEN pendingSignals + 1
                       ELSE pendingSignals
  /\ UNCHANGED newStatusChClosed

\* notifyNewStatusEvent on a buffered channel: every signal is queued
notifyNewStatusEventQueued ==
  /\ panicked' = newStatusChClosed
  /\ observer' = IF SignalDelivered THEN "woken" ELSE observer
  /\ dirty' = IF SignalDelivered THEN FALSE ELSE dirty
  /\ pendingSignals' = IF newStatusChClosed THEN pendingSignals
                       ELSE pendingSignals + 1
  /\ UNCHANGED newStatusChClosed

\* notifyNewStatusEvent: select { case s.newStatusCh <- struct{}{}: default: }
\* The channel is unbuffered: the send succeeds only when a receiver is waiting,
\* otherwise the default branch drops the signal.  A send on a closed channel
\* panics.
notifyNewStatusEvent ==
  /\ panicked' = newStatusChClosed
  /\ observer' = IF SignalDelivered THEN "woken" ELSE observer
  /\ dirty' = IF SignalDelivered THEN FALSE ELSE dirty
  /\ pendingSignals' = IF SignalDelivered THEN pendingSignals + 1
                       ELSE pendingSignals
  /\ UNCHANGED newStatusChClosed

\* ------------------------------------------- startPeerStatusUpdateProcess

\* for peerStatus := range GetPeerStatusUpdateCh(): receive the next status
FanInRecv ==
  /\ ~panicked
  /\ fanInPc = "recv"
  /\ updateCh # <<>>
  /\ held' = Head(updateCh)
  /\ updateCh' = Tail(updateCh)
  /\ fanInPc' = "put"
  /\ UNCHANGED <<callVars, endpointVars, clientVars, serviceVars, updateChClosed, signalVars, mapVars,
                 fanInSpawned, pubVars, closeVars, startRet, panicked,
                 overlayVars>>

\* the range loop ends when the channel is closed and drained
FanInExit ==
  /\ ~panicked
  /\ fanInPc = "recv"
  /\ updateCh = <<>>
  /\ updateChClosed
  /\ fanInPc' = "done"
  /\ UNCHANGED <<callVars, endpointVars, clientVars, serviceVars, chanVars, signalVars, mapVars,
                 fanInSpawned, held, pubVars, closeVars, startRet, panicked,
                 overlayVars>>

\* a fan-in that goes on to the notify without the Put done
FanInPutSkipped ==
  /\ ~panicked
  /\ fanInPc = "put"
  /\ fanInPc' = "notify"
  /\ UNCHANGED <<callVars, endpointVars, clientVars, serviceVars, chanVars,
                 signalVars, mapVars, fanInSpawned, held, pubVars, closeVars,
                 startRet, panicked, overlayVars>>

\* s.putToPeerMap(peerStatus): the Put
FanInPut ==
  /\ ~panicked
  /\ fanInPc = "put"
  /\ putToPeerMap(held)
  /\ fanInPc' = "notify"
  /\ UNCHANGED <<callVars, endpointVars, clientVars, serviceVars, chanVars,
                 newStatusChClosed, observer, pendingSignals, lastCall,
                 opCount, fanInSpawned, held, pubVars, closeVars, startRet,
                 panicked, overlayVars>>

\* s.putToPeerMap(peerStatus): the notifyNewStatusEvent after the Put
FanInNotify ==
  /\ ~panicked
  /\ fanInPc = "notify"
  /\ notifyNewStatusEvent
  /\ fanInPc' = IF newStatusChClosed THEN "panicked" ELSE "recv"
  /\ held' = IF newStatusChClosed THEN held ELSE Nil
  /\ UNCHANGED <<callVars, endpointVars, clientVars, serviceVars, chanVars, mapVars, fanInSpawned,
                 pubVars, closeVars, startRet, overlayVars>>

\* ------------------------------------------------------------- publisher

\* the last listening address of the host
PublishedAddrLast ==
  IF Len(hostAddrs) > 0 THEN hostAddrs[Len(hostAddrs)] ELSE ""

\* doPublishAppStatus, addr: the first listening address of the host, or ""
PublishedAddr == IF Len(hostAddrs) > 0 THEN hostAddrs[1] ELSE ""

\* doPublishAppStatus, one GetEndpointApplication() call of the AppStatus
\* literal: the next field is read from the endpoint application as it is now
PubReadField ==
  /\ ~panicked
  /\ pubPc \in {"first", "publish"}
  /\ Len(readBuf) < Len(ReadFields)
  /\ readBuf' = Append(readBuf, endpoint[ReadFields[Len(readBuf) + 1]])
  /\ UNCHANGED <<callVars, endpoint, hostAddrs, published, seenStates,
                 clientVars, serviceVars, chanVars, signalVars, mapVars,
                 fanInVars, pubVars, closeVars, startRet, panicked,
                 overlayVars>>

\* the value doPublishAppStatus has for the i-th field it reads: the one read
\* by an earlier step, or the endpoint application's when it is read now
FieldValue(i) ==
  IF i <= Len(readBuf) THEN readBuf[i] ELSE endpoint[ReadFields[i]]

\* doPublishAppStatus: the fields not read yet are read, and the AppStatus is
\* handed to PublishApplicationStatus; guage_height and guage_max are not set
\* in the literal and relay is set to "".  A failure of the publish is not
\* reported back.
doPublishAppStatus(ok) ==
  /\ pubCalls' = pubCalls + 1
  /\ lastPublish' = IF ok THEN "ok" ELSE "failed"
  /\ published' = [Name |-> FieldValue(1), Uptime |-> FieldValue(2),
                   StartupTime |-> FieldValue(3),
                   AveragePower |-> FieldValue(4),
                   GuageHeight |-> 0, GuageMax |-> 0,
                   Relay |-> "", Addr |-> PublishedAddr]
  /\ readBuf' = <<>>
  /\ seenStates' = {ReadView(endpoint)}

\* the publisher goroutine without the publish before the ticker
PubFirstNoPublish(ok) ==
  /\ ~panicked
  /\ pubPc = "first"
  /\ pubPc' = "wait"
  /\ UNCHANGED <<callVars, endpointVars, clientVars, serviceVars, chanVars,
                 signalVars, mapVars, fanInVars, pubSpawned, tickPending,
                 pubCalls, ticksConsumed, lastPublish, closeVars, startRet,
                 panicked, overlayVars>>

\* the goroutine of Start: s.doPublishAppStatus() before the ticker is made
PubFirst(ok) ==
  /\ ~panicked
  /\ pubPc = "first"
  /\ doPublishAppStatus(ok)
  /\ pubPc' = "wait"
  /\ UNCHANGED <<callVars, endpoint, hostAddrs, clientVars, serviceVars,
                 chanVars, signalVars, mapVars, fanInVars, pubSpawned,
                 tickPending, ticksConsumed, closeVars, startRet, panicked,
                 overlayVars>>

\* time.Ticker: a tick is put in ticker.C, which buffers one tick
TimerTick ==
  /\ ~panicked
  /\ pubPc \in {"wait", "publish"}
  /\ ~tickPending
  /\ tickPending' = TRUE
  /\ UNCHANGED <<callVars, endpointVars, clientVars, serviceVars, chanVars, signalVars, mapVars,
                 fanInVars, pubSpawned, pubPc, pubCalls, ticksConsumed,
                 lastPublish, closeVars, startRet, panicked, overlayVars>>

\* for { <-ticker.C
PubRecvTick ==
  /\ ~panicked
  /\ pubPc = "wait"
  /\ tickPending
  /\ pubCalls < MaxPublish
  /\ tickPending' = FALSE
  /\ ticksConsumed' = ticksConsumed + 1
  /\ pubPc' = "publish"
  /\ UNCHANGED <<callVars, endpointVars, clientVars, serviceVars, chanVars, signalVars, mapVars,
                 fanInVars, pubSpawned, pubCalls, lastPublish, closeVars,
                 startRet, panicked, overlayVars>>

\* a publisher loop that returns when a publish fails
PubPublishStopsOnError(ok) ==
  /\ ~panicked
  /\ pubPc = "publish"
  /\ doPublishAppStatus(ok)
  /\ pubPc' = IF ok THEN "wait" ELSE "done"
  /\ UNCHANGED <<callVars, endpoint, hostAddrs, clientVars, serviceVars, chanVars, signalVars,
                 mapVars, fanInVars, pubSpawned, tickPending, ticksConsumed,
                 closeVars, startRet, panicked, overlayVars>>

\*       s.doPublishAppStatus() }
PubPublish(ok) ==
  /\ ~panicked
  /\ pubPc = "publish"
  /\ doPublishAppStatus(ok)
  /\ pubPc' = "wait"
  /\ UNCHANGED <<callVars, endpoint, hostAddrs, clientVars, serviceVars,
                 chanVars, signalVars, mapVars, fanInVars, pubSpawned,
                 tickPending, ticksConsumed, closeVars, startRet, panicked,
                 overlayVars>>

\* -------------------------------------------------------------- observer

\* a goroutine starts to receive from s.newStatusCh; a closed channel
\* releases it at once
ObserverWait ==
  /\ ~panicked
  /\ observer = "idle"
  /\ observer' = IF newStatusChClosed THEN "closed" ELSE "waiting"
  /\ UNCHANGED <<callVars, endpointVars, clientVars, serviceVars, chanVars,
                 newStatusChClosed, dirty, pendingSignals, mapVars, fanInVars, pubVars, closeVars, startRet, panicked,
                 overlayVars>>

\* the observer has handled the signal it received
ObserverResume ==
  /\ ~panicked
  /\ observer = "woken"
  /\ observer' = "idle"
  /\ pendingSignals' = pendingSignals - 1
  /\ UNCHANGED <<callVars, endpointVars, clientVars, serviceVars, chanVars,
                 newStatusChClosed, dirty, mapVars, fanInVars, pubVars, closeVars, startRet, panicked,
                 overlayVars>>

\* ----------------------------------------------------------- specification

\* every publish of Spec succeeds and reads the endpoint application in one
\* step; PublisherSpec has the failing publishes, EndpointSpec the reads
Next ==
  \/ \E f \in BOOLEAN, e \in BOOLEAN : Start(f, e)
  \/ CloseSignal
  \/ \E e \in BOOLEAN : CloseService(e)
  \/ CloseClient
  \/ \E m \in AppStatusMsgs : SubscriberDeliver(m)
  \/ \E p \in Peers : OverlayDisconnect(p)
  \/ FanInRecv
  \/ FanInExit
  \/ FanInPut
  \/ FanInNotify
  \/ PubFirst(TRUE)
  \/ TimerTick
  \/ PubRecvTick
  \/ PubPublish(TRUE)
  \/ ObserverWait
  \/ ObserverResume

Spec == Init /\ [][Next]_vars

\* the goroutines of the syncer
FanInTask == FanInRecv \/ FanInExit \/ FanInPut \/ FanInNotify
PublisherTask ==
  \/ \E ok \in BOOLEAN : PubFirst(ok)
  \/ PubRecvTick
  \/ \E ok \in BOOLEAN : PubPublish(ok)
CloseTask == CloseService(FALSE) \/ CloseClient

\* every runnable goroutine is eventually run, and the ticker keeps ticking
FairSpec ==
  /\ Spec
  /\ WF_vars(FanInTask)
  /\ WF_vars(PublisherTask)
  /\ WF_vars(CloseTask)
  /\ WF_vars(TimerTick)

\* --------------------------------------------- PeerMap operations alone

\* a caller puts a status: putToPeerMap, first statement, s.peerMap.Put(status);
\* callArg holds the status of the call until its second statement has run
CallPut(status) ==
  /\ ~panicked
  /\ callArg = NoCall
  /\ opCount < MaxOps
  /\ putToPeerMap(status)
  /\ callArg' = [Kind |-> "putToPeerMap", Status |-> status]
  /\ lastCall' = <<"put", status.ID>>
  /\ opCount' = opCount + 1
  /\ UNCHANGED <<callRes, endpointVars, clientVars, serviceVars, chanVars,
                 newStatusChClosed, observer, pendingSignals, fanInVars,
                 pubVars, closeVars, startRet, panicked, overlayVars>>

\* the caller's putToPeerMap, second statement, s.notifyNewStatusEvent(): what
\* it does is decided by the state it finds, which a Close or a receiver may
\* have changed since the Put; the call returns unless the send panics
CallPutNotify ==
  /\ ~panicked
  /\ callArg.Kind = "putToPeerMap"
  /\ notifyNewStatusEvent
  /\ callArg' = IF newStatusChClosed THEN callArg ELSE NoCall
  /\ UNCHANGED <<callRes, endpointVars, clientVars, serviceVars, chanVars,
                 mapVars, fanInVars, pubVars, closeVars, startRet,
                 overlayVars>>

\* a caller removes a peer: removeFromPeerMap
CallRemove(peerID) ==
  /\ ~panicked
  /\ opCount < MaxOps
  /\ removeFromPeerMap(peerID)
  /\ lastCall' = <<"remove", peerID>>
  /\ opCount' = opCount + 1
  /\ UNCHANGED <<callVars, endpointVars, clientVars, serviceVars, chanVars, signalVars, fanInVars,
                 pubVars, closeVars, startRet, panicked, overlayVars>>

PeerMapNext ==
  \/ \E m \in AppStatusMsgs : CallPut(m)
  \/ CallPutNotify
  \/ \E k \in MsgIDs : CallRemove(k)
  \/ ObserverWait
  \/ ObserverResume
  \/ CloseSignal
  \/ \E e \in BOOLEAN : CloseService(e)
  \/ CloseClient

PeerMapSpec == Init /\ [][PeerMapNext]_vars

\* ------------------------------------------- publisher with failing publishes

\* Start, Close and the publisher goroutine, where a PublishApplicationStatus
\* call can fail
PublisherNext ==
  \/ \E f \in BOOLEAN, e \in BOOLEAN : Start(f, e)
  \/ CloseSignal
  \/ \E e \in BOOLEAN : CloseService(e)
  \/ CloseClient
  \/ \E ok \in BOOLEAN : PubFirst(ok)
  \/ TimerTick
  \/ PubRecvTick
  \/ \E ok \in BOOLEAN : PubPublish(ok)

PublisherSpec == Init /\ [][PublisherNext]_vars

\* ------------------------------------------------- endpoint application

\* the local runtime's changes of the endpoint application leave the host, the
\* publisher and the rest of the syncer alone
endpointFrame ==
  <<callVars, hostAddrs, published, readBuf, clientVars, serviceVars, chanVars,
    signalVars, mapVars, fanInVars, pubVars, closeVars, startRet, panicked,
    overlayVars>>

\* the local runtime replaces the endpoint application's state by e
EndpointSet(e) ==
  /\ ~panicked
  /\ endpoint' = e
  /\ seenStates' = seenStates \cup {ReadView(e)}
  /\ UNCHANGED endpointFrame

\* the uptime of the endpoint application advances
EndpointUptimeAdvance ==
  /\ endpoint.Uptime < MaxUptime
  /\ EndpointSet([endpoint EXCEPT !.Uptime = @ + 1])

\* the guage of the endpoint application moves to height h
EndpointGuageChange(h) ==
  /\ h # endpoint.GuageHeight
  /\ EndpointSet([endpoint EXCEPT !.GuageHeight = h])

\* the average e-power of the endpoint application becomes w
EndpointPowerChange(w) ==
  /\ w # endpoint.AveragePower
  /\ EndpointSet([endpoint EXCEPT !.AveragePower = w])

\* the host and the endpoint application are in any of their states
EndpointInit ==
  /\ NewSyncer
  /\ NoCalls
  /\ endpoint \in EndpointStates
  /\ hostAddrs \in HostAddrSets
  /\ seenStates = {ReadView(endpoint)}

\* Start and the publisher goroutine, whose doPublishAppStatus reads the
\* endpoint application field by field while the local runtime changes it
EndpointNext ==
  \/ Start(TRUE, FALSE)
  \/ EndpointUptimeAdvance
  \/ \E h \in GuageHeights : EndpointGuageChange(h)
  \/ \E w \in Powers : EndpointPowerChange(w)
  \/ PubReadField
  \/ PubFirst(TRUE)
  \/ TimerTick
  \/ PubRecvTick
  \/ PubPublish(TRUE)

EndpointSpec == EndpointInit /\ [][EndpointNext]_vars

\* ------------------------------------- arrival order and GetAppPeer calls

\* a caller reads the entry of id: GetAppPeer
CallGetAppPeer(id) ==
  /\ ~panicked
  /\ callArg' = [Kind |-> "GetAppPeer", ID |-> id]
  /\ callRes' = GetAppPeer(id)
  /\ UNCHANGED <<endpointVars, clientVars, serviceVars, chanVars, signalVars,
                 mapVars, fanInVars, pubVars, closeVars, startRet, panicked,
                 overlayVars>>

\* the subscriber, the fan-in goroutine, an observer of the signal and callers
\* of GetAppPeer, with statuses that carry an uptime
ArrivalNext ==
  \/ Start(TRUE, FALSE)
  \/ \E m \in TimedMsgs : SubscriberDeliver(m)
  \/ FanInRecv
  \/ FanInPut
  \/ FanInNotify
  \/ ObserverWait
  \/ ObserverResume
  \/ \E id \in MsgIDs : CallGetAppPeer(id)

ArrivalSpec == Init /\ [][ArrivalNext]_vars

\* ------------------------------------------------------- Application.Copy

\* values of the string fields and of the uint64 fields of an Application
AppStrings == {"", "x"}
AppNumbers == {0, 1}

\* type Application struct
Applications ==
  [Name : AppStrings, Tag : AppStrings, Version : AppStrings,
   PeerID : AppStrings, IpAddr : AppStrings, AppOrigin : AppStrings,
   ModelHash : AppStrings, Mac : AppStrings, MemInfo : AppStrings,
   CpuInfo : AppStrings, StartupTime : AppNumbers, Uptime : AppNumbers,
   GuageHeight : AppNumbers, GuageMax : AppNumbers]

\* (a *Application) Copy(): the fields the composite literal does not name
\* keep their zero value
Copy(a) ==
  [Name |-> a.Name, Tag |-> a.Tag, Version |-> a.Version, PeerID |-> a.PeerID,
   StartupTime |-> a.StartupTime, Uptime |-> a.Uptime,
   GuageHeight |-> a.GuageHeight, GuageMax |-> a.GuageMax,
   IpAddr |-> a.IpAddr, AppOrigin |-> a.AppOrigin,
   ModelHash |-> "", Mac |-> "", MemInfo |-> "", CpuInfo |-> ""]

\* an Application is at hand
CopyInit ==
  /\ NewSyncer
  /\ FreshEndpoint
  /\ callArg \in Applications
  /\ callRes = NoCall

\* a caller copies the Application
CallCopy ==
  /\ callRes' = Copy(callArg)
  /\ UNCHANGED <<callArg, endpointVars, clientVars, serviceVars, chanVars, signalVars,
                 mapVars, fanInVars, pubVars, closeVars, startRet, panicked,
                 overlayVars>>

CopySpec == CopyInit /\ [][CallCopy]_vars

\* ------------------------------------------------------------------ claims

\* a status of peer p is still on its way to the peer map
InFlight(p) ==
  \/ held.ID = p
  \/ \E i \in 1..Len(updateCh) : updateCh[i].ID = p

\* C1: once a disconnected(P) event has fired for a peer P that has an entry in
\* the peer map, and no status of P arrives afterwards, the entry of P is
\* eventually removed.
C1_DisconnectEviction ==
  \A p \in Peers :
    (p \in discPending /\ GetAppPeer(p) # Nil /\ ~InFlight(p))
      ~> (GetAppPeer(p) = Nil \/ p \notin discPending)

\* C2: after Close has returned nil, the fan-in goroutine and the publisher
\* goroutine that a Start has spawned eventually terminate.
C2_TasksExitAfterClose ==
  (closeRet = "ok" /\ fanInPc # "none" /\ pubPc # "none")
    ~> ((fanInPc = "done" /\ pubPc = "done") \/ panicked)

\* C3: once Close has returned (here: returned nil), the publisher makes no
\* further PublishApplicationStatus call.
C3_NoPublishAfterClose ==
  [][closeRet = "ok" => pubCalls' = pubCalls]_vars

\* C4: when a Put has happened since the last signal was consumed, an observer
\* that waits on the new-status signal eventually receives one.
C4_SignalLively ==
  (dirty /\ observer = "waiting") ~> (observer # "waiting")

\* C5: when SyncAppPeerService.Close fails during Close, SyncAppPeerClient.Close
\* is still called and the update channel is closed.
C5_CloseErrorProceeds ==
  closeRet = "err" => (clientClosed /\ updateChClosed)

\* C6: a Start in which SyncAppPeerClient.Start returns an error returns that
\* error, does not start the service, spawns no goroutine and publishes nothing.
C6_StartErrorAborts ==
  [][(clientStartRet' # clientStartRet /\ clientStartRet' # "ok")
       => /\ startRet' = clientStartRet'
          /\ UNCHANGED <<clientStarted, serviceStarts, fanInSpawned, fanInPc,
                         pubSpawned, pubPc, pubCalls>>]_vars

C6_Witness ==
  /\ startRet = "subscribe_failed"
  /\ ~clientStarted
  /\ serviceStarts = 0

\* everything a rejected Start must leave alone
startFrame ==
  <<clientStarted, subscribed, clientClosed, serviceVars, chanVars, signalVars,
    mapVars, fanInVars, pubVars, closeVars, panicked, overlayVars>>

\* C7: after a successful Start, another Start returns the already-started error
\* and changes nothing; at most one fan-in goroutine and at most one publisher
\* goroutine are ever spawned.
C7_SecondStartRejected ==
  /\ [](fanInSpawned <= 1 /\ pubSpawned <= 1)
  /\ [][(clientStarted /\ clientStartRet' # clientStartRet)
          => (startRet' = "already_started" /\ UNCHANGED startFrame)]_vars

C7_Witness ==
  /\ startRet = "already_started"
  /\ fanInSpawned = 1
  /\ pubSpawned = 1

\* C8: the peer map never holds an entry under this node's own identifier.
C8_NoSelfEntry == GetAppPeer(LocalID) = Nil

C8_Witness ==
  /\ lastDiscard = "self"
  /\ PeerMapKeys(peerMap) # {}

\* C9: no status with guage_height > guage_max is in the peer map, nor on its
\* way to it: the subscriber discards it before the update channel.
C9_GaugeInvariant ==
  /\ \A k \in MsgIDs : peerMap[k].GuageHeight <= peerMap[k].GuageMax
  /\ held.GuageHeight <= held.GuageMax
  /\ \A i \in 1..Len(updateCh) : updateCh[i].GuageHeight <= updateCh[i].GuageMax

C9_Witness ==
  /\ lastDiscard = "gauge"
  /\ \E p \in Peers : GetAppPeer(p) # Nil /\ GetAppPeer(p).GuageHeight = GetAppPeer(p).GuageMax

\* C10: after any sequence of Put and Remove, Get(k) is the status of the last
\* Put of k when the last operation on k was a Put, and nil when it was a Remove
\* or k was never put; a Remove of an absent key leaves the map as it is.
C10_GetReflectsLastOp ==
  /\ [](\A k \in MsgIDs :
          GetAppPeer(k) = IF lastOp[k][1] = "put" THEN lastOp[k][2] ELSE Nil)
  /\ [][\A k \in MsgIDs :
          (opCount' = opCount + 1 /\ lastCall' = <<"remove", k>>
             /\ GetAppPeer(k) = Nil)
          => peerMap' = peerMap]_vars

C10_Witness ==
  /\ opCount = MaxOps
  /\ \E k, j \in MsgIDs :
       /\ lastOp[k][1] = "remove"
       /\ lastOp[j][1] = "put"
       /\ lastCall = <<"remove", j>> \/ lastCall = <<"remove", k>>

\* a status of peer p has arrived and the fan-in has not Put it yet
Unapplied(p) ==
  \/ fanInPc = "put" /\ held.ID = p
  \/ \E i \in 1..Len(updateCh) : updateCh[i].ID = p

\* C11: for every peer P, once the fan-in has Put every status of P that
\* arrived, the peer map entry of P is the status of P that arrived last,
\* whatever the uptimes of the statuses are.
C11_LastWriteWins ==
  \A p \in Peers : ~Unapplied(p) => GetAppPeer(p) = lastArrived[p]

C11_Witness ==
  \E p \in Peers :
    /\ msgCount = MaxMsgs
    /\ \A q \in Peers \ {p} : lastArrived[q] = Nil
    /\ ~Unapplied(p)
    /\ fanInPc = "recv"
    /\ GetAppPeer(p) = lastArrived[p]
    /\ GetAppPeer(p).Uptime = 1

\* the statuses the subscriber sends on the update channel
AcceptedMsgs == {m \in AppStatusMsgs : SubscriberAccepts(m)}

\* the process was brought down by a caller's close of the closed signal
\* channel (a second Close), not by one of the syncer's goroutines
CrashedByCaller == panicked /\ fanInPc # "panicked"

\* C12: every status the subscriber has placed on the update channel is
\* eventually Put in the peer map by the fan-in (runs that a second Close
\* brings down are left aside).
C12_NoSilentDrop ==
  \A m \in AcceptedMsgs :
    (\E i \in 1..Len(updateCh) : updateCh[i] = m)
      ~> (lastOp[m.ID] = <<"put", m>> \/ CrashedByCaller)

\* C13: a panic inside the fan-in goroutine stops that goroutine alone: the
\* publisher goroutine can still take the step it was about to take.
C13_FailureIsolation ==
  fanInPc = "panicked" =>
    /\ pubPc = "first" => ENABLED PubFirst(TRUE)
    /\ pubPc = "publish" => ENABLED PubPublish(TRUE)
    /\ (pubPc = "wait" /\ tickPending /\ pubCalls < MaxPublish)
         => ENABLED PubRecvTick

\* C14: at most one new-status signal is outstanding (sent and not yet
\* handled); a notifyNewStatusEvent made while one is outstanding adds none.
C14_Coalescing ==
  /\ [](pendingSignals <= 1)
  /\ [][(fanInPc = "notify" /\ fanInPc' # "notify" /\ pendingSignals = 1)
          => pendingSignals' = 1]_vars

C14_Witness ==
  /\ pendingSignals = 1
  /\ observer = "woken"
  /\ dirty
  /\ fanInPc = "recv"

\* C15: while the signal channel is open, the fan-in's notifyNewStatusEvent
\* can always be completed, receiver or not, and the fan-in then goes on to
\* receive the next status.
C15_NotifyNeverBlocks ==
  /\ []((fanInPc = "notify" /\ ~newStatusChClosed /\ ~panicked)
          => ENABLED FanInNotify)
  /\ [][(fanInPc = "notify" /\ fanInPc' # "notify" /\ ~newStatusChClosed)
          => (fanInPc' = "recv" /\ ~panicked')]_vars

C15_Witness ==
  /\ fanInPc = "recv"
  /\ held = Nil
  /\ dirty
  /\ observer = "idle"
  /\ pendingSignals = 0
  /\ ~newStatusChClosed

\* C16: a failed publish does not end the publisher goroutine: it is back in
\* its loop, and at the next tick it goes on to publish again.
C16_PublishFailureSwallowed ==
  lastPublish = "failed" =>
    /\ pubPc \in {"wait", "publish"}
    /\ (pubPc = "wait" /\ tickPending /\ pubCalls < MaxPublish /\ ~panicked)
         => ENABLED PubRecvTick

C16_Witness ==
  /\ lastPublish = "failed"
  /\ pubPc = "publish"
  /\ ticksConsumed = pubCalls
  /\ ~panicked

\* C17: the record Copy returns has every field equal to the original's,
\* ModelHash, Mac, MemInfo and CpuInfo included.
C17_CopyEqualsOriginal == callRes # NoCall => callRes = callArg

\* C18: a call GetAppPeer(id) returns the status of the fan-in's last Put for
\* id, or nil when there was none, and changes neither the peer map nor the
\* signal, the update channel or the fan-in.
C18_GetAppPeerReadOnly ==
  [][(<<callArg, callRes>>' # <<callArg, callRes>>)
       => /\ callRes' = IF lastOp[callArg'.ID][1] = "put"
                        THEN lastOp[callArg'.ID][2] ELSE Nil
          /\ UNCHANGED <<peerMap, lastOp, signalVars, chanVars,
                         fanInVars>>]_vars

C18_Witness ==
  /\ callArg = [Kind |-> "GetAppPeer", ID |-> "p1"]
  /\ callRes # Nil
  /\ callRes = lastArrived["p1"]
  /\ GetAppPeer("p2") # Nil
  /\ dirty

\* C22: the fan-in's notifyNewStatusEvent never sends on the signal channel
\* after Close has closed it: the fan-in goroutine never panics.
C22_NoSendOnClosed == fanInPc # "panicked"

\* C23: the fields of every published AppStatus that are read from the endpoint
\* application all come from one state the endpoint application has had since
\* the publish before.
C23_SingleSnapshot ==
  [][pubCalls' = pubCalls + 1
       => \E v \in seenStates :
            \A i \in 1..Len(ReadFields) : published'[ReadFields[i]] = v[i]]_vars

\* C24: every published AppStatus carries the endpoint application's guage
\* height and guage max of the moment of the publish.
C24_PublishedGauge ==
  [][pubCalls' = pubCalls + 1
       => /\ published'.GuageHeight = endpoint.GuageHeight
          /\ published'.GuageMax = endpoint.GuageMax]_vars

\* C25: the publisher publishes once before it waits for any tick and once per
\* tick it receives: while it waits for a tick the number of publishes is 1
\* plus the number of ticks received, and while the publish of a start or of a
\* received tick is still to be made it is one less.
C25_PublishCadence ==
  /\ pubPc = "none" => (pubCalls = 0 /\ ticksConsumed = 0)
  /\ pubPc = "first" => (pubCalls = 0 /\ ticksConsumed = 0 /\ ~tickPending)
  /\ pubPc = "wait" => pubCalls = 1 + ticksConsumed
  /\ pubPc = "publish" => pubCalls = ticksConsumed

C25_Witness ==
  /\ pubPc = "wait"
  /\ pubCalls = MaxPublish
  /\ ticksConsumed = MaxPublish - 1
  /\ tickPending

\* C26: when a signal is handed to the observer, the Put of the status that
\* caused it is done: the peer map holds that status; and an entry of the peer
\* map is afterwards only replaced by the fan-in's Put of a later status of the
\* same peer, never removed.
C26_PutPrecedesSignal ==
  /\ [][pendingSignals' = pendingSignals + 1
          => /\ GetAppPeer(held.ID) = held
             /\ lastOp[held.ID] = <<"put", held>>]_vars
  /\ [][\A p \in MsgIDs :
          peerMap'[p] # peerMap[p]
            => (fanInPc = "put" /\ held.ID = p /\ peerMap'[p] = held)]_vars

C26_Witness ==
  /\ observer = "woken"
  /\ pendingSignals = 1
  /\ fanInPc = "recv"
  /\ msgCount = MaxMsgs
  /\ updateCh = <<>>
  /\ \A p \in Peers : GetAppPeer(p) # Nil /\ GetAppPeer(p) = lastArrived[p]

\* C27: once the update channel is closed, the fan-in that a Start has spawned
\* Puts the statuses still buffered in it and then terminates (runs that a
\* second Close brings down are left aside).
C27_FanInDrainsAndExits ==
  (updateChClosed /\ fanInPc # "none")
    ~> ((fanInPc = "done" /\ updateCh = <<>>) \/ CrashedByCaller)

\* C28: in a Close the signal channel is closed first, SyncAppPeerService.Close
\* is called after that, and SyncAppPeerClient.Close is called only after the
\* service's Close has returned without error.
C28_CloseOrdering ==
  /\ [](closePc \in {"service", "client"} => newStatusChClosed)
  /\ [](serviceClosed => newStatusChClosed)
  /\ [](clientClosed => serviceClosed)
  /\ [][(serviceClosed' /\ ~serviceClosed)
          => (newStatusChClosed /\ ~clientClosed)]_vars
  /\ [][(clientClosed' /\ ~clientClosed) => serviceClosed]_vars

C28_Witness ==
  /\ closeRet = "ok"
  /\ closePc = "idle"
  /\ newStatusChClosed
  /\ serviceClosed
  /\ clientClosed
  /\ ~panicked

\* the host's first listening address, or "" when it has none
FirstAddr == IF hostAddrs = <<>> THEN "" ELSE Head(hostAddrs)

\* C29: every published AppStatus has the host's first listening address as
\* its addr, the empty string when the host has none, and an empty relay.
C29_PublishedAddr ==
  published # NoStatus => (published.Addr = FirstAddr /\ published.Relay = "")

C29_Witness ==
  /\ pubCalls = MaxPublish
  /\ Len(hostAddrs) = 2
  /\ published.Addr = "a2"
  /\ published.Relay = ""

\* C30: a second Close does not panic: the signal channel is closed at most
\* once.
C30_CloseTwiceSafe == ~(panicked /\ fanInPc # "panicked")

\* ------------------------------------------------------------ NewServer

\* m.runningMode
RunningModes == {"full", "edge"}

\* the operations of NewServer that return an error
FallibleOps ==
  {"setup", "network.Start", "consensus.Start", "edgeNetwork.Start",
   "NewRelayClient", "StartRelayReserv", "NewApplicationEndpoint",
   "StartAlive", "syncer.Start", "setupJSONRPC", "NewMultiaddr",
   "NewRelayServer", "SetupAliveService"}

\* the configuration NewServer is given and the operations that fail in this
\* environment
ServerConfigs ==
  [Kind : {"Config"}, RunningMode : RunningModes, RelayOn : BOOLEAN,
   RelayPort : {0, 1}, Fails : SUBSET FallibleOps]

\* telepool.SetAppSyncer and telepool.Start before syncer.Start
ServerStepsPoolFirst(cfg) ==
  <<"setup">>
  \o (IF cfg.RunningMode = "full"
        THEN <<"network.Start", "consensus.Start", "edgeNetwork.Start">>
        ELSE <<>>)
  \o (IF cfg.RunningMode = "edge"
        THEN <<"NewRelayClient">>
             \o (IF cfg.RelayOn THEN <<"StartRelayReserv">> ELSE <<>>)
        ELSE <<>>)
  \o <<"NewApplicationEndpoint">>
  \o (IF cfg.RunningMode = "edge" THEN <<"StartAlive">> ELSE <<>>)
  \o (IF cfg.RunningMode = "full"
        THEN <<"SetAppSyncer", "telepool.Start", "syncer.Start", "setupJSONRPC">>
             \o (IF cfg.RelayPort > 0
                   THEN <<"NewMultiaddr", "NewRelayServer", "SetupAliveService">>
                   ELSE <<>>)
        ELSE <<>>)

\* the operations NewServer performs, in program order, when none fails:
\* the construction up to setupGRPC ("setup"), the start of the networks and
\* of consensus (full mode), the relay client (edge mode), the application
\* endpoint, and in full mode the syncer, the JSON-RPC server, the relay
\* server (RelayAddr.Port > 0) and the telegram pool
ServerSteps(cfg) ==
  <<"setup">>
  \o (IF cfg.RunningMode = "full"
        THEN <<"network.Start", "consensus.Start", "edgeNetwork.Start">>
        ELSE <<>>)
  \o (IF cfg.RunningMode = "edge"
        THEN <<"NewRelayClient">>
             \o (IF cfg.RelayOn THEN <<"StartRelayReserv">> ELSE <<>>)
        ELSE <<>>)
  \o <<"NewApplicationEndpoint">>
  \o (IF cfg.RunningMode = "edge" THEN <<"StartAlive">> ELSE <<>>)
  \o (IF cfg.RunningMode = "full"
        THEN <<"syncer.Start", "setupJSONRPC">>
             \o (IF cfg.RelayPort > 0
                   THEN <<"NewMultiaddr", "NewRelayServer", "SetupAliveService">>
                   ELSE <<>>)
             \o <<"SetAppSyncer", "telepool.Start">>
        ELSE <<>>)

\* the positions of the steps that fail
FailingSteps(steps, fails) == {i \in 1..Len(steps) : steps[i] \in fails}

\* the smallest element of a non-empty set of numbers
Least(S) == CHOOSE i \in S : \A j \in S : i <= j

\* NewServer(config): the operations run up to the first one that fails, whose
\* error is returned (Err names it); m, nil when none fails
NewServer(cfg) ==
  LET steps == ServerSteps(cfg)
      bad   == FailingSteps(steps, cfg.Fails)
  IN  IF bad = {}
        THEN [Kind |-> "NewServer", Ran |-> steps, Err |-> ""]
        ELSE [Kind |-> "NewServer", Ran |-> SubSeq(steps, 1, Least(bad)),
              Err |-> steps[Least(bad)]]

\* a configuration is at hand
ServerInit ==
  /\ NewSyncer
  /\ FreshEndpoint
  /\ callArg \in ServerConfigs
  /\ callRes = NoCall

\* the command starts the server
CallNewServer ==
  /\ callArg.Kind = "Config"
  /\ callRes = NoCall
  /\ callRes' = NewServer(callArg)
  /\ UNCHANGED <<callArg, endpointVars, clientVars, serviceVars, chanVars, signalVars,
                 mapVars, fanInVars, pubVars, closeVars, startRet, panicked,
                 overlayVars>>

ServerSpec == ServerInit /\ [][CallNewServer]_vars

\* the position of operation op in the run r, 0 when it was not run
RanAt(r, op) ==
  IF \E i \in 1..Len(r.Ran) : r.Ran[i] = op
    THEN CHOOSE i \in 1..Len(r.Ran) : r.Ran[i] = op
    ELSE 0

\* operation op was run and returned without error
Started(r, op) == RanAt(r, op) > 0 /\ r.Err # op

\* C31: in full running mode NewServer starts the application syncer only
\* after the edge network has been started, and starts the telegram pool only
\* after syncer.Start has returned without error and the syncer has been
\* attached with SetAppSyncer; when syncer.Start fails NewServer returns its
\* error and neither the JSON-RPC server, the relay server nor the telegram
\* pool is started
C31_StartOrder ==
  (callRes.Kind = "NewServer" /\ callArg.RunningMode = "full") =>
    /\ RanAt(callRes, "syncer.Start") > 0 =>
         /\ Started(callRes, "edgeNetwork.Start")
         /\ RanAt(callRes, "edgeNetwork.Start") < RanAt(callRes, "syncer.Start")
    /\ RanAt(callRes, "telepool.Start") > 0 =>
         /\ Started(callRes, "syncer.Start")
         /\ RanAt(callRes, "syncer.Start") < RanAt(callRes, "SetAppSyncer")
         /\ RanAt(callRes, "SetAppSyncer") < RanAt(callRes, "telepool.Start")
    /\ (RanAt(callRes, "syncer.Start") > 0 /\ "syncer.Start" \in callArg.Fails) =>
         /\ callRes.Err = "syncer.Start"
         /\ RanAt(callRes, "setupJSONRPC") = 0
         /\ RanAt(callRes, "NewRelayServer") = 0
         /\ RanAt(callRes, "telepool.Start") = 0

\* a full-mode server with a relay address came up: syncer, JSON-RPC server,
\* relay server and telegram pool are all started
C31_Witness ==
  /\ callRes.Kind = "NewServer"
  /\ callArg.RunningMode = "full"
  /\ callArg.RelayPort > 0
  /\ callRes.Err = ""
  /\ Started(callRes, "syncer.Start")
  /\ Started(callRes, "NewRelayServer")
  /\ Started(callRes, "telepool.Start")

\* --------------------------------------------------------- MinerService

\* const setOpt, removeOpt
setOpt == "set"
removeOpt == "remove"

\* a MinerRegisterRequest (principal, type, commit) together with the
\* environment of the call: whether secretsManager.GetSecret(ICPIdentityKey)
\* succeeds, and the error text of the miner agent ("" when its operation
\* succeeds)
MinerRegisterRequests ==
  [Kind : {"MinerRegisterRequest"}, Commit : {setOpt, removeOpt, "", "update"},
   Type : {0, 1, 2}, Principal : {"", "p1"}, SecretOk : BOOLEAN,
   AgentErr : {"", "rejected"}]

\* (s *MinerService) GetIdentity(): nil when GetSecret fails
GetIdentity(req) == IF req.SecretOk THEN "identity" ELSE "nil"

\* minerAgent.RegisterNode(NodeType(req.Type), s.host.ID().String(), req.Principal)
RegisterNode(req) ==
  [Op |-> "RegisterNode", Type |-> req.Type, NodeID |-> LocalID,
   Principal |-> req.Principal]

\* minerAgent.UnRegisterNode(s.host.ID().String())
UnRegisterNode(req) == [Op |-> "UnRegisterNode", NodeID |-> LocalID]

\* the call returns response, err (Err = "" is the nil error); AgentCalls are
\* the agent operations it made
MinerRegisterResponse(message, err, calls) ==
  [Kind |-> "MinerRegisterResponse", Message |-> message, Err |-> err,
   AgentCalls |-> calls]

\* the call panics (nil pointer dereference in the handler)
MinerRegisterPanic ==
  [Kind |-> "panic", Message |-> "", Err |-> "", AgentCalls |-> <<>>]

\* the agent's failure is returned as the error of the call
MinerRegiserErrReturned(req) ==
  IF GetIdentity(req) = "nil" THEN MinerRegisterPanic
  ELSE IF req.Commit = setOpt
    THEN MinerRegisterResponse(IF req.AgentErr = "" THEN "register ok" ELSE "",
                               req.AgentErr, <<RegisterNode(req)>>)
  ELSE IF req.Commit = removeOpt
    THEN MinerRegisterResponse(IF req.AgentErr = "" THEN "unregister ok" ELSE "",
                               req.AgentErr, <<UnRegisterNode(req)>>)
  ELSE MinerRegisterResponse("", "", <<>>)

\* (s *MinerService) MinerRegiser(ctx, req): identity.PubKeyBytes() is called
\* on what GetIdentity returned, without a nil check, before the commit is
\* looked at
MinerRegiser(req) ==
  IF GetIdentity(req) = "nil" THEN MinerRegisterPanic
  ELSE IF req.Commit = setOpt
    THEN MinerRegisterResponse(IF req.AgentErr = "" THEN "register ok"
                                                    ELSE req.AgentErr,
                               "", <<RegisterNode(req)>>)
  ELSE IF req.Commit = removeOpt
    THEN MinerRegisterResponse(IF req.AgentErr = "" THEN "unregister ok"
                                                    ELSE req.AgentErr,
                               "", <<UnRegisterNode(req)>>)
  ELSE MinerRegisterResponse("", "", <<>>)

\* a request is at hand
MinerInit ==
  /\ NewSyncer
  /\ FreshEndpoint
  /\ callArg \in MinerRegisterRequests
  /\ callRes = NoCall

\* a gRPC client calls MinerRegiser; a panic of the handler ends the process
CallMinerRegiser ==
  /\ callArg.Kind = "MinerRegisterRequest"
  /\ callRes = NoCall
  /\ ~panicked
  /\ callRes' = MinerRegiser(callArg)
  /\ panicked' = (MinerRegiser(callArg).Kind = "panic")
  /\ UNCHANGED <<callArg, endpointVars, clientVars, serviceVars, chanVars, signalVars,
                 mapVars, fanInVars, pubVars, closeVars, startRet,
                 overlayVars>>

MinerSpec == MinerInit /\ [][CallMinerRegiser]_vars

\* C32: MinerRegiser reports agent failures as values: a call with commit
\* "set" makes exactly one RegisterNode call and one with commit "remove"
\* exactly one UnRegisterNode call, and returns "register ok" / "unregister ok"
\* when the agent succeeds and the agent's error text when it fails; a call
\* with any other commit makes no agent call and returns an empty message; the
\* returned error is nil in all these cases
C32_AgentFailureAsValue ==
  callRes.Kind = "MinerRegisterResponse" =>
    /\ callRes.Err = ""
    /\ callArg.Commit = setOpt =>
         /\ callRes.AgentCalls = <<RegisterNode(callArg)>>
         /\ callRes.Message =
              (IF callArg.AgentErr = "" THEN "register ok" ELSE callArg.AgentErr)
    /\ callArg.Commit = removeOpt =>
         /\ callRes.AgentCalls = <<UnRegisterNode(callArg)>>
         /\ callRes.Message =
              (IF callArg.AgentErr = "" THEN "unregister ok" ELSE callArg.AgentErr)
    /\ callArg.Commit \notin {setOpt, removeOpt} =>
         /\ callRes.AgentCalls = <<>>
         /\ callRes.Message = ""

\* a "set" request whose RegisterNode failed has returned the agent's error
\* text as its message, with a nil error
C32_Witness ==
  /\ callRes.Kind = "MinerRegisterResponse"
  /\ callArg.Commit = setOpt
  /\ callArg.AgentErr # ""
  /\ callRes.Message = callArg.AgentErr
  /\ callRes.Err = ""
  /\ Len(callRes.AgentCalls) = 1

\* C33: MinerRegiser does not crash when the ICP identity secret is
\* unavailable: a call made while GetSecret(ICPIdentityKey) fails completes
\* with an error or a message and makes no RegisterNode / UnRegisterNode call
C33_NoCrashWithoutIdentity ==
  (callRes.Kind # "none" /\ callArg.Kind = "MinerRegisterRequest"
     /\ ~callArg.SecretOk) =>
    /\ callRes.Kind = "MinerRegisterResponse"
    /\ ~panicked
    /\ callRes.AgentCalls = <<>>

====
